---- MODULE Spec2Model ----
(***************************************************************************)
(* A model of the error translation bridges of khulnasoft-lab/trace:       *)
(* the HTTP bridge (WriteError, ErrorToCode, ReadError, replyJSON,         *)
(* unmarshalError, errorOnInvalidJSON) and the gRPC bridge (Send, ToGRPC,  *)
(* FromGRPC, SetDebugInfo, DecodeDebugInfo) of httplib.go.                 *)
(*                                                                         *)
(* Errors are records tagged by their concrete Go type in field t.  Texts  *)
(* (messages, bodies written by hand) are sequences of characters over a   *)
(* small alphabet, so that quoting and escaping are computed, not assumed. *)
(***************************************************************************)
EXTENDS Naturals, Integers, Sequences, FiniteSets, TLC

(***************************************************************************)
(* Bounds of the model.                                                    *)
(***************************************************************************)
\* longest failure-message text drawn for an error whose serialization fails
MaxTextLen == 2
\* deepest stack of TraceErr wrappers put around a leaf error
MaxWrap == 2
\* how many hops past maxHops the longest nested Aggregate chain goes
ChainExtra == 5

(***************************************************************************)
(* Program constants.                                                      *)
(***************************************************************************)
\* the hop budget of every traversal.  It is set outside the files modelled;
\* nothing below depends on its value, and the model takes a small one.
maxHops == 10

StatusOK == 200
StatusBadRequest == 400
StatusForbidden == 403
StatusNotFound == 404
StatusConflict == 409
StatusPreconditionFailed == 412
StatusTooManyRequests == 429
StatusInternalServerError == 500
StatusNotImplemented == 501
StatusGatewayTimeout == 504

DebugReportMetadata == "trace-debug-report"

(***************************************************************************)
(* Texts.  "x" is an ordinary character, "n" an ordinary character that is *)
(* also a JSON escape letter, "q" the double quote, "b" the backslash and  *)
(* "L" a raw control character (a line feed).  The remaining characters    *)
(* are JSON punctuation.                                                   *)
(***************************************************************************)
Alphabet == {"x", "n", "q", "b", "L"}

TextsUpTo(n) == UNION {[1..k -> Alphabet] : k \in 0..n}

NoText == <<>>

(***************************************************************************)
(* The typed-error taxonomy and the gRPC codes.                            *)
(***************************************************************************)
Kinds ==
    {"NotFound", "BadParameter", "NotImplemented", "CompareFailed",
     "AccessDenied", "AlreadyExists", "LimitExceeded", "ConnectionProblem",
     "OAuth2", "Retry", "Trust"}

Codes ==
    {"OK", "Canceled", "Unknown", "InvalidArgument", "DeadlineExceeded",
     "NotFound", "AlreadyExists", "PermissionDenied", "ResourceExhausted",
     "FailedPrecondition", "Aborted", "OutOfRange", "Unimplemented",
     "Internal", "Unavailable", "DataLoss", "Unauthenticated"}

(***************************************************************************)
(* Error values.                                                           *)
(***************************************************************************)
Nil == [t |-> "nil"]

\* a TypedError of the given kind, e.g. &NotFoundError{Message: msg}
Typed(kind, msg) == [t |-> "typed", kind |-> kind, msg |-> msg]

\* an error of no known type (errors.New)
Plain(msg) == [t |-> "plain", msg |-> msg]

\* the end-of-stream sentinel io.EOF
EOF == [t |-> "eof"]

\* an error for which os.IsNotExist holds
NotExist == [t |-> "notexist"]

\* a native gRPC status error
StatusErr(code, msg) == [t |-> "status", code |-> code, msg |-> msg]

\* an error whose custom JSON serialization fails with the given text
BadJSON(text) == [t |-> "badjson", text |-> text]

\* &TraceErr{Err, Traces, Message, Messages, Fields}
TraceErr(err, traces, message, messages, fields) ==
    [t |-> "trace", err |-> err, traces |-> traces, message |-> message,
     messages |-> messages, fields |-> fields]

\* &RawTrace{}: the wire mirror of TraceErr, Err being undecoded bytes
RawTrace(hasErr, traces, message, messages, fields) ==
    [t |-> "rawtrace", hasErr |-> hasErr, traces |-> traces,
     message |-> message, messages |-> messages, fields |-> fields]

\* an error with the Aggregate capability over the given sub-errors
Agg(errs) == [t |-> "agg", errs |-> errs]

\* an Aggregate whose first (and only) sub-error is itself
SelfAgg == [t |-> "selfagg"]

\* proxyError{TraceErr: ...}, what wrapProxy returns
Proxy(tr) == [t |-> "proxy", trace |-> tr]

IsNil(e) == e.t = "nil"

\* err.(*TraceErr)
IsTraceErr(e) == e.t = "trace"

\* err.(trace.Error): TraceErr and the types that embed it
IsTraceError(e) == e.t \in {"trace", "proxy"}

\* err.(Aggregate) on the value itself
HasAggregate(e) == e.t \in {"agg", "selfagg"}

Errors(e) == IF e.t = "selfagg" THEN <<e>> ELSE e.errs

\* the error a wrapper holds: its Unwrap() method
Inner(e) == IF e.t = "proxy" THEN e.trace.err ELSE e.err

Traces(e) ==
    IF e.t = "proxy" THEN e.trace.traces
    ELSE IF e.t \in {"trace", "rawtrace"} THEN e.traces ELSE <<>>

Messages(e) ==
    IF e.t = "proxy" THEN e.trace.messages
    ELSE IF e.t \in {"trace", "rawtrace"} THEN e.messages ELSE <<>>

(***************************************************************************)
(* ErrorCore: Unwrap, the hop-bounded traversal, the Is<Kind> predicates,  *)
(* UserMessage, wrap and NewAggregate.                                     *)
(***************************************************************************)
RECURSIVE OrigError(_, _)
OrigError(e, hops) ==
    IF hops > 0 /\ IsTraceError(e) /\ ~IsNil(Inner(e))
    THEN OrigError(Inner(e), hops - 1)
    ELSE e

\* trace.Unwrap: the error under the TraceErr wrappers
Unwrap(err) == IF IsTraceError(err) THEN OrigError(Inner(err), maxHops) ELSE err

IsAggregate(err) == HasAggregate(Unwrap(err))

\* errors.As(err, &grpcstatus): the first status error of the Unwrap() chain
RECURSIVE AsStatus(_)
AsStatus(e) ==
    IF e.t = "status" THEN e
    ELSE IF IsTraceError(e) THEN AsStatus(Inner(e))
    ELSE Nil

\* status.FromError(err): ok
FromErrorOK(e) == IsNil(e) \/ ~IsNil(AsStatus(e))

\* the type switch with two rows exchanged and OAuth2 left to Unknown
KindCodeSwapped(kind) ==
    CASE kind = "AccessDenied" -> "PermissionDenied"
      [] kind = "AlreadyExists" -> "AlreadyExists"
      [] kind = "BadParameter" -> "InvalidArgument"
      [] kind = "CompareFailed" -> "Unavailable"
      [] kind = "ConnectionProblem" -> "FailedPrecondition"
      [] kind = "LimitExceeded" -> "ResourceExhausted"
      [] kind = "NotFound" -> "NotFound"
      [] kind = "NotImplemented" -> "Unimplemented"
      [] kind = "OAuth2" -> "Unknown"
      [] OTHER -> ""

\* the type switch of ToGRPC's callback: kind -> code, "" when not mapped
KindCode(kind) ==
    CASE kind = "AccessDenied" -> "PermissionDenied"
      [] kind = "AlreadyExists" -> "AlreadyExists"
      [] kind = "BadParameter" -> "InvalidArgument"
      [] kind = "CompareFailed" -> "FailedPrecondition"
      [] kind = "ConnectionProblem" -> "Unavailable"
      [] kind = "LimitExceeded" -> "ResourceExhausted"
      [] kind = "NotFound" -> "NotFound"
      [] kind = "NotImplemented" -> "Unimplemented"
      [] kind = "OAuth2" -> "InvalidArgument"
      [] OTHER -> ""

\* the callback of ToGRPC: whether this hop decides the code
Decisive(e) ==
    \/ e.t = "eof"
    \/ ~IsNil(AsStatus(e))
    \/ e.t = "notexist"
    \/ (e.t = "typed" /\ KindCode(e.kind) # "")

\* the callbacks handed to TraverseErr, by name: "toGRPC" or "Is" \o kind
Matches(fn, e) ==
    IF fn = "toGRPC" THEN Decisive(e)
    ELSE IF fn = "NotFound"
    THEN e.t = "notexist" \/ (e.t = "typed" /\ e.kind = "NotFound")
    ELSE e.t = "typed" /\ e.kind = fn

\* internal.TraverseErr: the first error, within the hop budget, on which
\* the callback answers true; Nil when there is none.  One hop is one step
\* from a wrapper to what it wraps, or from an Aggregate to a sub-error.
RECURSIVE TraverseErr(_, _, _)
RECURSIVE TraverseAll(_, _, _, _)
TraverseErr(e, fn, hops) ==
    IF IsNil(e) THEN Nil
    ELSE IF Matches(fn, e) THEN e
    ELSE IF hops = 0 THEN Nil
    ELSE IF IsTraceError(e) THEN TraverseErr(Inner(e), fn, hops - 1)
    ELSE IF HasAggregate(e) THEN TraverseAll(Errors(e), 1, fn, hops - 1)
    ELSE Nil

TraverseAll(errs, i, fn, hops) ==
    IF i > Len(errs) THEN Nil
    ELSE LET r == TraverseErr(errs[i], fn, hops)
         IN  IF ~IsNil(r) THEN r ELSE TraverseAll(errs, i + 1, fn, hops)

IsKind(kind, err) == ~IsNil(TraverseErr(err, kind, maxHops))

IsNotFound(err) == IsKind("NotFound", err)
IsBadParameter(err) == IsKind("BadParameter", err)
IsOAuth2(err) == IsKind("OAuth2", err)
IsNotImplemented(err) == IsKind("NotImplemented", err)
IsCompareFailed(err) == IsKind("CompareFailed", err)
IsAccessDenied(err) == IsKind("AccessDenied", err)
IsAlreadyExists(err) == IsKind("AlreadyExists", err)
IsLimitExceeded(err) == IsKind("LimitExceeded", err)
IsConnectionProblem(err) == IsKind("ConnectionProblem", err)

\* err.Error() of an error that is no TraceErr
ErrorText(e) ==
    IF e.t \in {"typed", "plain", "status"} THEN e.msg
    ELSE IF e.t = "badjson" THEN e.text
    ELSE IF e.t = "rawtrace" THEN e.message
    ELSE <<"x">>

\* trace.UserMessage: the override message, else the wrapped error's
RECURSIVE UserMessageN(_, _)
UserMessageN(e, hops) ==
    IF IsNil(e) THEN NoText
    ELSE IF IsTraceError(e)
    THEN LET m == IF e.t = "proxy" THEN e.trace.message ELSE e.message
         IN  IF m # NoText \/ hops = 0 THEN m
             ELSE UserMessageN(Inner(e), hops - 1)
    ELSE ErrorText(e)

UserMessage(e) == UserMessageN(e, maxHops)

\* wrap(err, depth): a trace.Error is kept, anything else gets one frame
wrap(err, frame) ==
    IF IsNil(err) THEN Nil
    ELSE IF IsTraceError(err) THEN err
    ELSE TraceErr(err, <<frame>>, NoText, <<>>, {})

wrapProxy(err) == IF IsNil(err) THEN Nil ELSE Proxy(wrap(err, "ReadError"))

\* trace.NewAggregate of two errors
NewAggregate(e1, e2) ==
    LET nonNils == SelectSeq(<<e1, e2>>, LAMBDA e : ~IsNil(e))
    IN  IF Len(nonNils) = 0 THEN Nil
        ELSE IF Len(nonNils) = 1 THEN nonNils[1]
        ELSE wrap(Agg(nonNils), "NewAggregate")

(***************************************************************************)
(* JSON texts.  A text is a sequence of characters; ValidJSON recognises   *)
(* the JSON values made of objects and strings.                            *)
(***************************************************************************)
RECURSIVE SkipWs(_, _)
SkipWs(s, p) == IF p <= Len(s) /\ s[p] = " " THEN SkipWs(s, p + 1) ELSE p

\* p is just past an opening quote; the position past the closing quote, or 0
RECURSIVE StringEnd(_, _)
StringEnd(s, p) ==
    IF p > Len(s) THEN 0
    ELSE IF s[p] = "q" THEN p + 1
    ELSE IF s[p] = "L" THEN 0
    ELSE IF s[p] = "b"
    THEN IF p + 1 <= Len(s) /\ s[p + 1] \in {"q", "b", "n"}
         THEN StringEnd(s, p + 2)
         ELSE 0
    ELSE StringEnd(s, p + 1)

\* the position past the value (the members) starting at p, or 0
RECURSIVE ValueEnd(_, _)
RECURSIVE MembersEnd(_, _)
ValueEnd(s, p) ==
    IF p > Len(s) THEN 0
    ELSE IF s[p] = "q" THEN StringEnd(s, p + 1)
    ELSE IF s[p] = "{"
    THEN LET p1 == SkipWs(s, p + 1)
         IN  IF p1 <= Len(s) /\ s[p1] = "}" THEN p1 + 1 ELSE MembersEnd(s, p1)
    ELSE 0

MembersEnd(s, p) ==
    IF p > Len(s) \/ s[p] # "q" THEN 0
    ELSE LET k == StringEnd(s, p + 1)
             c == SkipWs(s, k)
         IN  IF k = 0 \/ c > Len(s) \/ s[c] # ":" THEN 0
             ELSE LET v == ValueEnd(s, SkipWs(s, c + 1))
                      a == SkipWs(s, v)
                  IN  IF v = 0 \/ a > Len(s) THEN 0
                      ELSE IF s[a] = "}" THEN a + 1
                      ELSE IF s[a] = "," THEN MembersEnd(s, SkipWs(s, a + 1))
                      ELSE 0

ValidJSON(s) ==
    LET v == ValueEnd(s, SkipWs(s, 1))
    IN  v # 0 /\ SkipWs(s, v) = Len(s) + 1

\* encoding/json's string escaping
RECURSIVE Escape(_)
Escape(text) ==
    IF text = <<>> THEN <<>>
    ELSE LET c == Head(text)
         IN  (CASE c = "q" -> <<"b", "q">>
                [] c = "b" -> <<"b", "b">>
                [] c = "L" -> <<"b", "n">>
                [] OTHER -> <<c>>) \o Escape(Tail(text))

\* the failure of json.Marshal on an error: [failed, text]
RECURSIVE MarshalFailure(_)
MarshalFailure(e) ==
    IF e.t = "badjson" THEN [failed |-> TRUE, text |-> <<"x">> \o e.text]
    ELSE IF IsTraceError(e) THEN MarshalFailure(Inner(e))
    ELSE [failed |-> FALSE, text |-> NoText]

\* json.MarshalIndent(obj, "", "    ") of a TraceErr that serializes
MarshalIndent(obj) ==
    <<"{", "q", "x", "q", ":", " ", "{", "q", "x", "q", ":", " ", "q">>
        \o Escape(UserMessage(obj)) \o <<"q", "}", "}">>

(***************************************************************************)
(* HTTPBridge.                                                             *)
(***************************************************************************)
\* the switch of ErrorToCode without its first case
ErrorToCodeNoAggregate(err) ==
    CASE IsNotFound(err) -> StatusNotFound
      [] IsBadParameter(err) \/ IsOAuth2(err) -> StatusBadRequest
      [] IsNotImplemented(err) -> StatusNotImplemented
      [] IsCompareFailed(err) -> StatusPreconditionFailed
      [] IsAccessDenied(err) -> StatusForbidden
      [] IsAlreadyExists(err) -> StatusConflict
      [] IsLimitExceeded(err) -> StatusTooManyRequests
      [] IsConnectionProblem(err) -> StatusGatewayTimeout
      [] OTHER -> StatusInternalServerError

\* the switch of ErrorToCode: the first case that holds, in source order
ErrorToCode(err) ==
    IF IsAggregate(err) THEN StatusGatewayTimeout
    ELSE IF IsNotFound(err) THEN StatusNotFound
    ELSE IF IsBadParameter(err) \/ IsOAuth2(err) THEN StatusBadRequest
    ELSE IF IsNotImplemented(err) THEN StatusNotImplemented
    ELSE IF IsCompareFailed(err) THEN StatusPreconditionFailed
    ELSE IF IsAccessDenied(err) THEN StatusForbidden
    ELSE IF IsAlreadyExists(err) THEN StatusConflict
    ELSE IF IsLimitExceeded(err) THEN StatusTooManyRequests
    ELSE IF IsConnectionProblem(err) THEN StatusGatewayTimeout
    ELSE StatusInternalServerError

\* the response writer before anything is written
NewWriter == [contentType |-> "", codes |-> <<>>, bodies |-> <<>>]

\* the body replyJSON builds by hand when serialization fails
FallbackBody(text) ==
    <<"{", "q", "x", "q", ":", " ", "{", "q", "x", "q", ":", " ", "q", "x">>
        \o text \o <<"q", "}", "}">>

replyJSON(w, code, err) ==
    LET obj == IF IsTraceErr(err) THEN err
               ELSE TraceErr(err, <<>>, NoText, <<>>, {})
        bad == MarshalFailure(obj)
        out == IF bad.failed THEN FallbackBody(bad.text) ELSE MarshalIndent(obj)
    IN  [contentType |-> "application/json",
         codes |-> Append(w.codes, code),
         bodies |-> Append(w.bodies, out)]

(***************************************************************************)
(* Response bodies as ReadError sees them: the bytes, whether they are     *)
(* JSON, and what the JSON document holds.  A field of a document is       *)
(* absent, of the type its Go field decodes ("ok"), or of another type.    *)
(***************************************************************************)
Absent == [st |-> "absent", v |-> <<>>]
Field(v) == [st |-> "ok", v |-> v]
WrongType == [st |-> "wrong", v |-> <<>>]

NoDoc == [st |-> "absent"]

Doc(top, message, error, traces, messages) ==
    [st |-> "present", top |-> top, message |-> message, error |-> error,
     traces |-> traces, messages |-> messages]

EmptyBody == [size |-> 0, valid |-> FALSE, bytes |-> "", doc |-> NoDoc]
Garbage(bytes) == [size |-> 1, valid |-> FALSE, bytes |-> bytes, doc |-> NoDoc]
JSONBody(doc) == [size |-> 1, valid |-> TRUE, bytes |-> "json", doc |-> doc]

\* whether a document decodes into a struct with these fields
DecodesInto(doc, fields) ==
    /\ doc.top \in {"object", "null"}
    /\ doc.top = "object" =>
          /\ "message" \in fields => doc.message.st # "wrong"
          /\ "traces" \in fields => doc.traces.st # "wrong"
          /\ "messages" \in fields => doc.messages.st # "wrong"

RawTraceFields == {"error", "traces", "message", "messages", "fields"}

\* json.Unmarshal(data, &raw) for a RawTrace: [ok, val]
UnmarshalRawTrace(valid, doc, zero) ==
    IF ~valid \/ ~DecodesInto(doc, RawTraceFields) THEN [ok |-> FALSE, val |-> zero]
    ELSE IF doc.top = "null" THEN [ok |-> TRUE, val |-> zero]
    ELSE [ok |-> TRUE,
          val |-> RawTrace(doc.error.st = "present",
                           IF doc.traces.st = "ok" THEN doc.traces.v ELSE zero.traces,
                           IF doc.message.st = "ok" THEN doc.message.v ELSE zero.message,
                           IF doc.messages.st = "ok" THEN doc.messages.v ELSE zero.messages,
                           zero.fields)]

ZeroRawTrace == RawTrace(FALSE, <<>>, NoText, <<>>, {})

\* json.Unmarshal(data, err) into the error ReadError selected: [ok, val]
Unmarshal(valid, doc, err) ==
    IF err.t = "rawtrace" THEN UnmarshalRawTrace(valid, doc, err)
    ELSE IF ~valid \/ ~DecodesInto(doc, {"message"}) THEN [ok |-> FALSE, val |-> err]
    ELSE IF doc.top = "object" /\ doc.message.st = "ok"
    THEN [ok |-> TRUE, val |-> Typed(err.kind, doc.message.v)]
    ELSE [ok |-> TRUE, val |-> err]

\* string(responseBody): the bytes as one message string
String(responseBody) == [bytes |-> responseBody]

\* a message string that came out of a decoded document
Aux(text) == [text |-> text]

\* errorOnInvalidJSON forgetting the body
errorOnInvalidJSONDropBody(err, responseBody) ==
    TraceErr(err, <<>>, NoText, <<>>, {})

errorOnInvalidJSON(err, responseBody) ==
    TraceErr(err, <<>>, NoText, <<String(responseBody)>>, {})

unmarshalError(err, responseBody) ==
    IF responseBody.size = 0 THEN err
    ELSE LET raw == UnmarshalRawTrace(responseBody.valid, responseBody.doc, ZeroRawTrace)
         IN  IF ~raw.ok THEN errorOnInvalidJSON(err, responseBody)
             ELSE IF raw.val.hasErr
             THEN LET inner == Unmarshal(TRUE, responseBody.doc.error, err)
                  IN  IF ~inner.ok THEN errorOnInvalidJSON(err, responseBody)
                      ELSE TraceErr(inner.val, raw.val.traces, raw.val.message,
                                    raw.val.messages, raw.val.fields)
             ELSE LET whole == Unmarshal(responseBody.valid, responseBody.doc, err)
                  IN  IF ~whole.ok THEN errorOnInvalidJSON(err, responseBody)
                      ELSE whole.val

\* the switch of ReadError with the rows of 403 and 409 exchanged
SelectedErrorSwapped(statusCode) ==
    CASE statusCode = StatusNotFound -> Typed("NotFound", NoText)
      [] statusCode = StatusBadRequest -> Typed("BadParameter", NoText)
      [] statusCode = StatusNotImplemented -> Typed("NotImplemented", NoText)
      [] statusCode = StatusPreconditionFailed -> Typed("CompareFailed", NoText)
      [] statusCode = StatusForbidden -> Typed("AlreadyExists", NoText)
      [] statusCode = StatusConflict -> Typed("AccessDenied", NoText)
      [] statusCode = StatusTooManyRequests -> Typed("LimitExceeded", NoText)
      [] statusCode = StatusGatewayTimeout -> Typed("ConnectionProblem", NoText)
      [] OTHER -> ZeroRawTrace

\* the switch of ReadError: the zero value the status code selects
SelectedError(statusCode) ==
    CASE statusCode = StatusNotFound -> Typed("NotFound", NoText)
      [] statusCode = StatusBadRequest -> Typed("BadParameter", NoText)
      [] statusCode = StatusNotImplemented -> Typed("NotImplemented", NoText)
      [] statusCode = StatusPreconditionFailed -> Typed("CompareFailed", NoText)
      [] statusCode = StatusForbidden -> Typed("AccessDenied", NoText)
      [] statusCode = StatusConflict -> Typed("AlreadyExists", NoText)
      [] statusCode = StatusTooManyRequests -> Typed("LimitExceeded", NoText)
      [] statusCode = StatusGatewayTimeout -> Typed("ConnectionProblem", NoText)
      [] OTHER -> ZeroRawTrace

ReadError(statusCode, respBytes) ==
    IF statusCode >= StatusOK /\ statusCode < StatusBadRequest THEN Nil
    ELSE wrapProxy(unmarshalError(SelectedError(statusCode), respBytes))

(***************************************************************************)
(* gRPC metadata.  An MD maps keys to lists of values; the model keeps the *)
(* set of keys present and the value list under DebugReportMetadata (empty *)
(* when the key is absent).  A value is a string: whether it is standard   *)
(* base64, and the JSON document it decodes to.                            *)
(***************************************************************************)
NilMD == [keys |-> {}, report |-> <<>>]

MDLen(meta) == Cardinality(meta.keys)

Payload(b64, valid, doc) == [b64 |-> b64, valid |-> valid, doc |-> doc]

\* json.Marshal of a TraceErr that serializes: the RawTrace document
MarshalDoc(e) ==
    Doc("object",
        Field(e.message),
        IF IsNil(e.err) THEN NoDoc
        ELSE Doc("object", Field(ErrorText(e.err)), NoDoc, Absent, Absent),
        IF e.traces = <<>> THEN Absent ELSE Field(e.traces),
        IF e.messages = <<>> THEN Absent ELSE Field(e.messages))

\* base64.StdEncoding.EncodeToString(out)
EncodeToString(doc) == Payload(TRUE, TRUE, doc)

(***************************************************************************)
(* RPCBridge.                                                              *)
(***************************************************************************)
\* SetDebugInfo without the check that err is a TraceErr
SetDebugInfoAnyError(err, meta) ==
    IF IsNil(err) \/ MarshalFailure(err).failed THEN meta
    ELSE [keys |-> meta.keys \cup {DebugReportMetadata},
          report |-> <<EncodeToString(MarshalDoc(wrap(err, "up")))>>]

SetDebugInfo(err, meta) ==
    IF ~IsTraceErr(err) THEN meta
    ELSE IF MarshalFailure(err).failed THEN meta
    ELSE [keys |-> meta.keys \cup {DebugReportMetadata},
          report |-> <<EncodeToString(MarshalDoc(err))>>]

DecodeDebugInfo(err, meta) ==
    IF MDLen(meta) = 0 THEN err
    ELSE IF DebugReportMetadata \notin meta.keys \/ Len(meta.report) # 1 THEN err
    ELSE LET encoded == meta.report[1]
             raw == UnmarshalRawTrace(encoded.valid, encoded.doc, ZeroRawTrace)
         IN  IF ~encoded.b64 THEN err
             ELSE IF ~raw.ok THEN err
             ELSE IF Len(raw.val.traces) # 0 /\ raw.val.hasErr
             THEN TraceErr(err, raw.val.traces, raw.val.message, <<>>, {})
             ELSE err

\* err.Error()
ErrorString(e) == IF IsTraceError(e) THEN UserMessage(e) ELSE ErrorText(e)

\* status.Convert(err): the status an error carries, Unknown when none
Convert(err) ==
    LET s == AsStatus(err)
    IN  IF err.t = "status" THEN [code |-> err.code, message |-> err.msg]
        ELSE IF ~IsNil(s) THEN [code |-> s.code, message |-> ErrorString(err)]
        ELSE [code |-> "Unknown", message |-> ErrorString(err)]

\* the code ToGRPC's callback sets on the hop that decides
HopCode(hit) ==
    IF IsNil(hit) THEN "Unknown"
    ELSE IF ~IsNil(AsStatus(hit)) THEN AsStatus(hit).code
    ELSE IF hit.t = "notexist" THEN "NotFound"
    ELSE KindCode(hit.kind)

ToGRPC(originalErr) ==
    IF IsNil(originalErr) THEN Nil
    ELSE IF FromErrorOK(originalErr) THEN originalErr
    ELSE LET hit == TraverseErr(originalErr, "toGRPC", maxHops)
         IN  IF hit.t = "eof" THEN originalErr
             ELSE StatusErr(HopCode(hit), UserMessage(originalErr))

\* the switch of FromGRPC with two rows exchanged
CodeErrorSwapped(code, message, err) ==
    CASE code = "NotFound" -> Typed("NotFound", message)
      [] code = "AlreadyExists" -> Typed("AlreadyExists", message)
      [] code = "PermissionDenied" -> Typed("AccessDenied", message)
      [] code = "FailedPrecondition" -> Typed("BadParameter", message)
      [] code = "InvalidArgument" -> Typed("CompareFailed", message)
      [] code = "ResourceExhausted" -> Typed("LimitExceeded", message)
      [] code = "Unavailable" -> Typed("ConnectionProblem", message)
      [] code = "Unimplemented" -> Typed("NotImplemented", message)
      [] OTHER -> err

\* the switch of FromGRPC: the typed error a code maps back to
CodeError(code, message, err) ==
    CASE code = "NotFound" -> Typed("NotFound", message)
      [] code = "AlreadyExists" -> Typed("AlreadyExists", message)
      [] code = "PermissionDenied" -> Typed("AccessDenied", message)
      [] code = "FailedPrecondition" -> Typed("CompareFailed", message)
      [] code = "InvalidArgument" -> Typed("BadParameter", message)
      [] code = "ResourceExhausted" -> Typed("LimitExceeded", message)
      [] code = "Unavailable" -> Typed("ConnectionProblem", message)
      [] code = "Unimplemented" -> Typed("NotImplemented", message)
      [] OTHER -> err

\* internal.CaptureTraces(1) inside FromGRPC: the frame of this hop
CaptureTraces == <<"FromGRPC">>

\* args is what follows err: nothing, a metadata.MD, or something else
FromGRPC(err, args) ==
    IF IsNil(err) THEN Nil
    ELSE LET statusErr == Convert(err)
             e == CodeError(statusErr.code, statusErr.message, err)
             d == IF args.given = "md" THEN DecodeDebugInfo(e, args.meta) ELSE e
         IN  IF statusErr.code = "OK" THEN Nil
             ELSE IF args.given = "md" /\ IsTraceError(d) THEN d
             ELSE TraceErr(d, CaptureTraces, NoText, <<>>, {})

\* metadata.FromIncomingContext: a copy of the incoming MD, or New(nil)
FromIncomingContext(ctx) == IF ctx.hasMD THEN ctx.md ELSE NilMD

\* Send dropping the error of grpc.SendHeader
SendIgnoringSendErr(ctx, err, dbg, sendErr) ==
    LET meta0 == FromIncomingContext(ctx)
        meta == IF dbg THEN SetDebugInfo(err, meta0) ELSE meta0
    IN  [ret |-> ToGRPC(err),
         hdr |-> IF MDLen(meta) # 0 THEN <<meta>> ELSE <<>>]

\* Send: [ret: what it returns, hdr: the headers handed to grpc.SendHeader]
\* dbg is trace.IsDebug(), sendErr what grpc.SendHeader returns (Nil when
\* it succeeds)
Send(ctx, err, dbg, sendErr) ==
    LET meta0 == FromIncomingContext(ctx)
        meta == IF dbg THEN SetDebugInfo(err, meta0) ELSE meta0
    IN  IF MDLen(meta) # 0
        THEN IF ~IsNil(sendErr)
             THEN [ret |-> NewAggregate(err, sendErr), hdr |-> <<meta>>]
             ELSE [ret |-> ToGRPC(err), hdr |-> <<meta>>]
        ELSE [ret |-> ToGRPC(err), hdr |-> <<>>]

(***************************************************************************)
(* The inputs the operations are called with.                              *)
(***************************************************************************)
RECURSIVE WrapN(_, _)
WrapN(e, n) ==
    IF n = 0 THEN e ELSE TraceErr(WrapN(e, n - 1), <<"up">>, NoText, <<>>, {})

\* n Aggregates nested through their first sub-error, each built and
\* wrapped the way NewAggregate does
RECURSIVE NestedAgg(_, _)
NestedAgg(n, leaf) ==
    IF n = 0 THEN leaf
    ELSE wrap(Agg(<<NestedAgg(n - 1, leaf), Plain(<<"x">>)>>), "NewAggregate")

TypedInputs == {Typed(k, <<"x">>) : k \in Kinds}

BasicInputs ==
    TypedInputs
        \cup {Typed("NotFound", <<"q">>), Plain(<<"x">>), EOF, NotExist}
        \cup {StatusErr(c, <<"x">>) : c \in Codes}

LeafInputs == BasicInputs \cup {BadJSON(text) : text \in TextsUpTo(MaxTextLen)}

MemberInputs ==
    {Typed("NotFound", <<"x">>), Typed("BadParameter", <<"x">>),
     Typed("Retry", <<"x">>), Plain(<<"x">>), EOF,
     StatusErr("Aborted", <<"x">>)}

AggInputs ==
    LET bare == {Agg(<<>>), SelfAgg}
                    \cup {Agg(<<a, b>>) : a \in MemberInputs, b \in MemberInputs}
    IN  bare \cup {wrap(a, "NewAggregate") : a \in bare}
             \cup {NestedAgg(n, Typed("NotFound", <<"x">>)) :
                       n \in 1..(maxHops + ChainExtra)}

\* every error the single-argument operations are called with
ErrInputs ==
    {Nil} \cup {WrapN(l, n) : l \in LeafInputs, n \in 0..MaxWrap}
          \cup {TraceErr(l, <<>>, m, <<>>, {}) :
                    l \in TypedInputs, m \in {<<"x">>, <<"q">>}}
          \cup AggInputs

\* the errors of the operations that take further arguments
SmallErrInputs ==
    {Nil, BadJSON(<<"q">>), WrapN(BadJSON(<<"x">>), 1)}
        \cup {WrapN(l, n) : l \in BasicInputs, n \in 0..1}
        \cup {wrap(Agg(<<Typed("NotFound", <<"x">>), Plain(<<"x">>)>>), "NewAggregate")}

StatusInputs ==
    {100, 199, 200, 204, 302, 399, 400, 403, 404, 409, 412, 418, 429, 500, 501, 504}

FieldInputs(v) == {Absent, Field(v), WrongType}

InnerDocInputs ==
    {NoDoc} \cup {Doc(top, m, NoDoc, Absent, Absent) :
                      top \in {"object", "null", "other"},
                      m \in FieldInputs(<<"x">>)}

DocInputs ==
    {Doc("null", Absent, NoDoc, Absent, Absent),
     Doc("other", Absent, NoDoc, Absent, Absent)}
        \cup {Doc("object", m, e, tr, ms) :
                  m \in FieldInputs(<<"x">>) \cup {Field(<<"q">>)},
                  e \in InnerDocInputs,
                  tr \in FieldInputs(<<"up">>),
                  ms \in {Absent, Field(<<Aux("aux")>>)}}

BodyInputs ==
    {EmptyBody, Garbage("not json"), Garbage("{truncated")}
        \cup {JSONBody(d) : d \in DocInputs}

PayloadInputs ==
    {Payload(TRUE, TRUE, Doc("object", Field(<<"x">>),
                             Doc("object", Field(<<"x">>), NoDoc, Absent, Absent),
                             Field(<<"up">>), Absent)),
     Payload(FALSE, TRUE, NoDoc),
     Payload(TRUE, FALSE, NoDoc),
     Payload(TRUE, TRUE, Doc("object", Field(<<"x">>), NoDoc, Field(<<"up">>), Absent)),
     Payload(TRUE, TRUE, Doc("object", Field(<<"x">>),
                             Doc("object", Field(<<"x">>), NoDoc, Absent, Absent),
                             Absent, Absent)),
     Payload(TRUE, TRUE, Doc("other", Absent, NoDoc, Absent, Absent))}

MDInputs ==
    {NilMD, [keys |-> {"x-request-id"}, report |-> <<>>]}
        \cup {[keys |-> k \cup {DebugReportMetadata}, report |-> r] :
                  k \in SUBSET {"x-request-id"},
                  r \in {<<>>} \cup {<<p>> : p \in PayloadInputs}
                               \cup {<<p, p>> : p \in PayloadInputs}}

CtxInputs ==
    {[hasMD |-> FALSE, md |-> NilMD]} \cup {[hasMD |-> TRUE, md |-> m] : m \in MDInputs}

ArgsInputs ==
    {[given |-> "none", meta |-> NilMD], [given |-> "other", meta |-> NilMD]}
        \cup {[given |-> "md", meta |-> m] : m \in MDInputs}

\* what grpc.SendHeader returns
SendErrInputs == {Nil, Plain(<<"x">>), StatusErr("Internal", <<"x">>)}

(***************************************************************************)
(* The state: the process-wide debug flag, and the call made and what it   *)
(* did.  Calls share nothing but the flag, so a behaviour follows one call *)
(* from the state in which none was made yet (op = "none").  pc is the     *)
(* position inside WriteError ("idle" outside of it).                      *)
(***************************************************************************)
VARIABLES
    debug,   \* trace.IsDebug()
    pc,      \* "idle", or "flatten" inside WriteError's loop
    op,      \* the operation called last
    arg,     \* its arguments
    ret,     \* what it returned
    w,       \* the http.ResponseWriter handed to WriteError
    cur,     \* WriteError's variable err
    iters,   \* WriteError's variable i
    hdr      \* the headers Send handed to grpc.SendHeader

vars == <<debug, pc, op, arg, ret, w, cur, iters, hdr>>

NoArg == [none |-> TRUE]

Init ==
    /\ debug \in BOOLEAN
    /\ pc = "idle"
    /\ op = "none"
    /\ arg = NoArg
    /\ ret = Nil
    /\ w = NewWriter
    /\ cur = Nil
    /\ iters = 0
    /\ hdr = <<>>

\* no call was made yet
Fresh == pc = "idle" /\ op = "none"

\* a call that runs to completion in one step
Returns(name, a, r) ==
    /\ pc' = "idle"
    /\ op' = name
    /\ arg' = a
    /\ ret' = r
    /\ w' = NewWriter
    /\ cur' = Nil
    /\ iters' = 0

\* the external collaborator that owns the debug flag flips it
SetDebug ==
    /\ Fresh
    /\ debug' = ~debug
    /\ UNCHANGED <<pc, op, arg, ret, w, cur, iters, hdr>>

CallErrorToCode ==
    /\ Fresh
    /\ \E err \in ErrInputs :
        /\ Returns("ErrorToCode", [err |-> err], [code |-> ErrorToCode(err)])
        /\ hdr' = <<>>
        /\ UNCHANGED debug

CallReadError ==
    /\ Fresh
    /\ \E statusCode \in StatusInputs, respBytes \in BodyInputs :
        /\ Returns("ReadError", [statusCode |-> statusCode, respBytes |-> respBytes],
                   ReadError(statusCode, respBytes))
        /\ hdr' = <<>>
        /\ UNCHANGED debug

CallToGRPC ==
    /\ Fresh
    /\ \E err \in ErrInputs :
        /\ Returns("ToGRPC", [err |-> err], ToGRPC(err))
        /\ hdr' = <<>>
        /\ UNCHANGED debug

CallFromGRPC ==
    /\ Fresh
    /\ \E err \in SmallErrInputs, args \in ArgsInputs :
        /\ Returns("FromGRPC", [err |-> err, args |-> args], FromGRPC(err, args))
        /\ hdr' = <<>>
        /\ UNCHANGED debug

CallSetDebugInfo ==
    /\ Fresh
    /\ \E err \in SmallErrInputs, meta \in MDInputs :
        /\ Returns("SetDebugInfo", [err |-> err, meta |-> meta],
                   [meta |-> SetDebugInfo(err, meta)])
        /\ hdr' = <<>>
        /\ UNCHANGED debug

CallDecodeDebugInfo ==
    /\ Fresh
    /\ \E err \in SmallErrInputs, meta \in MDInputs :
        /\ Returns("DecodeDebugInfo", [err |-> err, meta |-> meta],
                   DecodeDebugInfo(err, meta))
        /\ hdr' = <<>>
        /\ UNCHANGED debug

CallSend ==
    /\ Fresh
    /\ \E ctx \in CtxInputs, err \in SmallErrInputs, sendErr \in SendErrInputs :
        LET r == Send(ctx, err, debug, sendErr)
        IN  /\ Returns("Send", [ctx |-> ctx, err |-> err, sendErr |-> sendErr], r.ret)
            /\ hdr' = r.hdr
            /\ UNCHANGED debug

\* WriteError up to its loop: an error that is no Aggregate is answered
\* at once, any other enters the flatten loop with i = 0
WriteErrorEnter ==
    /\ Fresh
    /\ \E err \in ErrInputs :
        /\ op' = "WriteError"
        /\ arg' = [err |-> err]
        /\ ret' = Nil
        /\ cur' = err
        /\ iters' = 0
        /\ hdr' = <<>>
        /\ IF ~IsAggregate(err)
           THEN /\ w' = replyJSON(NewWriter, ErrorToCode(err), err)
                /\ pc' = "idle"
           ELSE /\ w' = NewWriter
                /\ pc' = "flatten"
        /\ UNCHANGED debug

\* the loop condition off by one
FlattenGoesOnOffByOne(err, i) ==
    /\ i <= maxHops
    /\ HasAggregate(Unwrap(err))
    /\ Len(Errors(Unwrap(err))) # 0

\* whether one more iteration of the flatten loop replaces err
FlattenGoesOn(err, i) ==
    /\ i < maxHops
    /\ HasAggregate(Unwrap(err))
    /\ Len(Errors(Unwrap(err))) # 0

\* one iteration of the loop: err = errors[0]
FlattenStep ==
    /\ pc = "flatten"
    /\ FlattenGoesOn(cur, iters)
    /\ cur' = Errors(Unwrap(cur))[1]
    /\ iters' = iters + 1
    /\ UNCHANGED <<debug, pc, op, arg, ret, w, hdr>>

\* the loop ends (a break, or the hop budget) and the reply is written
WriteErrorReply ==
    /\ pc = "flatten"
    /\ ~FlattenGoesOn(cur, iters)
    /\ w' = replyJSON(w, ErrorToCode(cur), cur)
    /\ pc' = "idle"
    /\ UNCHANGED <<debug, op, arg, ret, cur, iters, hdr>>

Next ==
    \/ SetDebug
    \/ CallErrorToCode
    \/ CallReadError
    \/ CallToGRPC
    \/ CallFromGRPC
    \/ CallSetDebugInfo
    \/ CallDecodeDebugInfo
    \/ CallSend
    \/ WriteErrorEnter
    \/ FlattenStep
    \/ WriteErrorReply

Spec == Init /\ [][Next]_vars

\* WriteError runs on: a call that entered the loop is not left suspended
LiveSpec == Spec /\ WF_vars(FlattenStep) /\ WF_vars(WriteErrorReply)

(***************************************************************************)
(* Properties.                                                             *)
(***************************************************************************)

\* the typed kinds ErrorToCode has a row for
IsOfRowKind(e) ==
    \E k \in Kinds \ {"Retry", "Trust"} : IsKind(k, e)

\* C1: ErrorToCode answers by the first matching row of the priority table
\* Aggregate 504, NotFound 404, BadParameter or OAuth2 400, NotImplemented
\* 501, CompareFailed 412, AccessDenied 403, AlreadyExists 409,
\* LimitExceeded 429, ConnectionProblem 504, anything else 500; an error
\* that is an Aggregate and of a typed kind gets 504, a Retry or Trust
\* error gets 500.
C1_ErrorToCodeTable ==
    op = "ErrorToCode" =>
        LET e == arg.err
            code == ret.code
            r1 == IsAggregate(e)
            r2 == IsNotFound(e)
            r3 == IsBadParameter(e) \/ IsOAuth2(e)
            r4 == IsNotImplemented(e)
            r5 == IsCompareFailed(e)
            r6 == IsAccessDenied(e)
            r7 == IsAlreadyExists(e)
            r8 == IsLimitExceeded(e)
            r9 == IsConnectionProblem(e)
        IN  /\ r1 => code = 504
            /\ ~r1 /\ r2 => code = 404
            /\ ~(r1 \/ r2) /\ r3 => code = 400
            /\ ~(r1 \/ r2 \/ r3) /\ r4 => code = 501
            /\ ~(r1 \/ r2 \/ r3 \/ r4) /\ r5 => code = 412
            /\ ~(r1 \/ r2 \/ r3 \/ r4 \/ r5) /\ r6 => code = 403
            /\ ~(r1 \/ r2 \/ r3 \/ r4 \/ r5 \/ r6) /\ r7 => code = 409
            /\ ~(r1 \/ r2 \/ r3 \/ r4 \/ r5 \/ r6 \/ r7) /\ r8 => code = 429
            /\ ~(r1 \/ r2 \/ r3 \/ r4 \/ r5 \/ r6 \/ r7 \/ r8) /\ r9 => code = 504
            /\ ~(r1 \/ r2 \/ r3 \/ r4 \/ r5 \/ r6 \/ r7 \/ r8 \/ r9) => code = 500
            /\ (IsKind("Retry", e) \/ IsKind("Trust", e)) /\ ~r1 /\ ~IsOfRowKind(e)
                  => code = 500

\* an Aggregate that also holds a NotFound error was classified as 504
C1_Witness ==
    /\ op = "ErrorToCode"
    /\ IsAggregate(arg.err)
    /\ IsNotFound(arg.err)
    /\ ret.code = 504

\* the status codes of the HTTP table
TableStatuses == {404, 400, 501, 412, 403, 409, 429, 504}

\* C2: for every status code of the HTTP table and every non-empty body
\* (a minimal envelope, a full envelope with an inner err, or a body that
\* does not decode), ErrorToCode(ReadError(code, body)) is code again.
C2_ReadErrorRoundTrip ==
    (op = "ReadError" /\ arg.statusCode \in TableStatuses /\ arg.respBytes.size # 0)
        => ErrorToCode(ret) = arg.statusCode

\* a 409 read from a full envelope with an inner err is classified 409 again
C2_Witness ==
    /\ op = "ReadError"
    /\ arg.statusCode = 409
    /\ arg.respBytes.valid
    /\ arg.respBytes.doc.top = "object"
    /\ arg.respBytes.doc.error.st = "present"
    /\ arg.respBytes.doc.error.top = "object"
    /\ arg.respBytes.doc.traces.st = "ok"
    /\ arg.respBytes.doc.message.st = "ok"
    /\ ret.t = "proxy"
    /\ Inner(ret).t = "typed"
    /\ Traces(ret) = <<"up">>
    /\ ErrorToCode(ret) = 409

\* the gRPC codes FromGRPC maps to a typed error
MappedCodes ==
    {"NotFound", "AlreadyExists", "PermissionDenied", "FailedPrecondition",
     "InvalidArgument", "ResourceExhausted", "Unavailable", "Unimplemented"}

\* C3: ToGRPC(FromGRPC(e)) has the gRPC code of e, for every gRPC status
\* error e with a mapped code, FromGRPC being called without metadata.
C3_GRPCRoundTrip ==
    (/\ op = "FromGRPC"
     /\ arg.err.t = "status"
     /\ arg.err.code \in MappedCodes
     /\ arg.args.given = "none")
        => /\ ToGRPC(ret).t = "status"
           /\ ToGRPC(ret).code = arg.err.code

\* PermissionDenied came back as a traced AccessDenied error, which ToGRPC
\* turns into PermissionDenied again
C3_Witness ==
    /\ op = "FromGRPC"
    /\ arg.err = StatusErr("PermissionDenied", <<"x">>)
    /\ arg.args.given = "none"
    /\ ret.t = "trace"
    /\ ret.err = Typed("AccessDenied", <<"x">>)
    /\ ToGRPC(ret) = StatusErr("PermissionDenied", <<"x">>)

\* the hops of an error in the order they are visited, within the budget
RECURSIVE HopSeq(_, _)
RECURSIVE HopSeqAll(_, _, _)
HopSeq(e, hops) ==
    IF IsNil(e) THEN <<>>
    ELSE <<e>> \o (IF hops = 0 THEN <<>>
                   ELSE IF IsTraceError(e) THEN HopSeq(Inner(e), hops - 1)
                   ELSE IF HasAggregate(e) THEN HopSeqAll(Errors(e), 1, hops - 1)
                   ELSE <<>>)

HopSeqAll(errs, i, hops) ==
    IF i > Len(errs) THEN <<>>
    ELSE HopSeq(errs[i], hops) \o HopSeqAll(errs, i + 1, hops)

\* the fixed table of ToGRPC, as the claim states it
ClaimedCode(kind) ==
    CASE kind = "AccessDenied" -> "PermissionDenied"
      [] kind = "AlreadyExists" -> "AlreadyExists"
      [] kind = "BadParameter" -> "InvalidArgument"
      [] kind = "CompareFailed" -> "FailedPrecondition"
      [] kind = "ConnectionProblem" -> "Unavailable"
      [] kind = "LimitExceeded" -> "ResourceExhausted"
      [] kind = "NotFound" -> "NotFound"
      [] kind = "NotImplemented" -> "Unimplemented"
      [] kind = "OAuth2" -> "InvalidArgument"

ClaimedDecisive(e) ==
    \/ e.t \in {"eof", "status", "notexist"}
    \/ e.t = "typed" /\ e.kind \notin {"Retry", "Trust"}

\* C4: for a non-nil error that is no gRPC status error, ToGRPC takes the
\* code from the first decisive hop of the unwrap chain by the fixed table
\* (AccessDenied PermissionDenied, AlreadyExists AlreadyExists, BadParameter
\* InvalidArgument, CompareFailed FailedPrecondition, ConnectionProblem
\* Unavailable, LimitExceeded ResourceExhausted, NotFound NotFound,
\* NotImplemented Unimplemented, OAuth2 InvalidArgument); Retry and Trust
\* decide nothing, and when no hop within maxHops decides the code is Unknown.
C4_ToGRPCTable ==
    (op = "ToGRPC" /\ ~IsNil(arg.err) /\ ~FromErrorOK(arg.err)) =>
        LET hs == HopSeq(arg.err, maxHops)
            decisive == {i \in DOMAIN hs : ClaimedDecisive(hs[i])}
        IN  IF decisive = {}
            THEN ret.t = "status" /\ ret.code = "Unknown"
            ELSE LET first == hs[CHOOSE i \in decisive : \A j \in decisive : i <= j]
                 IN  first.t = "typed" =>
                        ret.t = "status" /\ ret.code = ClaimedCode(first.kind)

\* an OAuth2 error under two TraceErr wrappers: the wrappers decided
\* nothing and the OAuth2 hop gave InvalidArgument
C4_Witness ==
    /\ op = "ToGRPC"
    /\ arg.err = WrapN(Typed("OAuth2", <<"x">>), 2)
    /\ ret = StatusErr("InvalidArgument", <<"x">>)

\* C5 as stated: whatever the debug mode and whether the header send
\* succeeds or fails, Send(ctx, err) returns ToGRPC(err).
C5_SendAlwaysReturnsToGRPC ==
    op = "Send" => ret = ToGRPC(arg.err)

\* C5 as amended: Send(ctx, err) returns ToGRPC(err) when no header is sent
\* (the metadata is empty) or the send succeeds; when the send of the header
\* fails it returns NewAggregate(err, sendErr) instead.
C5_SendReturn ==
    op = "Send" =>
        IF hdr # <<>> /\ ~IsNil(arg.sendErr)
        THEN ret = NewAggregate(arg.err, arg.sendErr)
        ELSE ret = ToGRPC(arg.err)

\* a header send failed and Send returned the Aggregate of both errors,
\* which is not what ToGRPC gives
C5_Witness ==
    /\ op = "Send"
    /\ hdr # <<>>
    /\ ~IsNil(arg.sendErr)
    /\ ~IsNil(arg.err)
    /\ IsAggregate(ret)
    /\ Errors(Unwrap(ret)) = <<arg.err, arg.sendErr>>
    /\ ret # ToGRPC(arg.err)

\* whether a metadata value list decodes to a trace report
DecodableReport(meta) ==
    /\ DebugReportMetadata \in meta.keys
    /\ Len(meta.report) = 1
    /\ meta.report[1].b64
    /\ meta.report[1].valid
    /\ meta.report[1].doc.top = "object"
    /\ meta.report[1].doc.traces.st = "ok"
    /\ meta.report[1].doc.traces.v # <<>>
    /\ meta.report[1].doc.message.st # "wrong"
    /\ meta.report[1].doc.messages.st # "wrong"
    /\ meta.report[1].doc.error.st = "present"

\* C6: for every non-nil err whose gRPC code is not OK, FromGRPC returns
\* either the error rebuilt from debug metadata that decoded, or a TraceErr
\* around the mapped error with the one frame captured at this call; with
\* no metadata, or metadata without a decodable report, the result carries
\* the frame captured at this hop.
C6_FromGRPCFreshFrame ==
    (op = "FromGRPC" /\ ~IsNil(arg.err) /\ Convert(arg.err).code # "OK") =>
        LET decoded == arg.args.given = "md" /\ DecodableReport(arg.args.meta)
        IN  /\ ~IsNil(ret)
            /\ ~decoded => (ret.t = "trace" /\ ret.traces = CaptureTraces)
            /\ decoded => (ret.t = "trace"
                              /\ ret.traces = arg.args.meta.report[1].doc.traces.v)

\* C7 as stated: a header Send hands over holds the trace-debug-report key
\* only when debug mode is on and err is a TraceErr, whatever metadata the
\* incoming context carries.
C7_KeyOnlyWhenDebugAndTrace ==
    op = "Send" =>
        \A i \in DOMAIN hdr :
            DebugReportMetadata \in hdr[i].keys => (debug /\ IsTraceErr(arg.err))

\* C7 as amended: Send itself adds the trace-debug-report key only when debug
\* mode is on and err is a TraceErr; otherwise the header it sends is the
\* incoming metadata unchanged, and so holds the key only if the incoming
\* context already carried it.
C7_KeyOnlyAddedWhenDebugAndTrace ==
    op = "Send" =>
        \A i \in DOMAIN hdr :
            /\ DebugReportMetadata \in hdr[i].keys =>
                  \/ debug /\ IsTraceErr(arg.err)
                  \/ arg.ctx.hasMD /\ DebugReportMetadata \in arg.ctx.md.keys
            /\ ~(debug /\ IsTraceErr(arg.err)) => hdr[i] = arg.ctx.md

\* debug mode on, a TraceErr, an incoming context without the key: the
\* header sent holds the report
C7_Witness ==
    /\ op = "Send"
    /\ debug
    /\ IsTraceErr(arg.err)
    /\ DebugReportMetadata \notin arg.ctx.md.keys
    /\ Len(hdr) = 1
    /\ DebugReportMetadata \in hdr[1].keys
    /\ hdr[1].report = <<EncodeToString(MarshalDoc(arg.err))>>

\* WriteError has returned
WriteErrorDone == op = "WriteError" /\ pc = "idle"

\* C8: the body WriteError writes is valid JSON, also when serializing the
\* error fails and the hand-built body with the failure message is written,
\* whatever the text of that message.
C8_BodyIsValidJSON ==
    WriteErrorDone => \A i \in DOMAIN w.bodies : ValidJSON(w.bodies[i])

\* what holds of the flatten loop in every state of WriteError
C9_FlattenBounded ==
    op = "WriteError" =>
        /\ iters <= maxHops
        /\ Len(w.bodies) <= 1
        /\ pc = "idle" =>
              /\ Len(w.bodies) = 1
              /\ Len(w.codes) = 1
              /\ iters < maxHops =>
                    ~(HasAggregate(Unwrap(cur)) /\ Errors(Unwrap(cur)) # <<>>)

\* C9: the flatten loop of WriteError ends after at most maxHops iterations
\* on every error graph (a chain of maxHops + 5 nested Aggregates, an
\* Aggregate whose first sub-error is itself); it ends earlier when the
\* current error does not unwrap to an Aggregate or the Aggregate is empty;
\* and WriteError then writes exactly one response.
C9_FlattenTerminates ==
    /\ []C9_FlattenBounded
    /\ (pc = "flatten") ~> (WriteErrorDone /\ Len(w.bodies) = 1)

\* the self-referential Aggregate used up the hop budget and was answered
C9_Witness ==
    /\ WriteErrorDone
    /\ arg.err = SelfAgg
    /\ iters = maxHops
    /\ Len(w.bodies) = 1
    /\ w.codes = <<504>>

\* whether a non-empty body fails one of the decodings of unmarshalError
\* for the error selected: the envelope, the inner err, or the whole body
FailsToDecode(body, selected) ==
    LET d == body.doc
        bad(x) == \/ x.top = "other"
                  \/ x.top = "object" /\ x.message.st = "wrong"
                  \/ x.top = "object" /\ selected.t = "rawtrace"
                        /\ (x.traces.st = "wrong" \/ x.messages.st = "wrong")
    IN  \/ ~body.valid
        \/ d.top = "other"
        \/ d.top = "object" /\ (d.message.st = "wrong" \/ d.traces.st = "wrong"
                                   \/ d.messages.st = "wrong")
        \/ d.top = "object" /\ d.error.st = "present" /\ bad(d.error)

\* C10: for a status code outside [200,400) and a non-empty body that fails
\* to decode, ReadError returns a non-nil error that wraps the type the
\* status code selects and whose messages are exactly the one raw body.
C10_InvalidJSONFallback ==
    (/\ op = "ReadError"
     /\ ~(arg.statusCode >= 200 /\ arg.statusCode < 400)
     /\ arg.respBytes.size # 0
     /\ FailsToDecode(arg.respBytes, SelectedError(arg.statusCode)))
        => /\ ~IsNil(ret)
           /\ Inner(ret) = SelectedError(arg.statusCode)
           /\ Messages(ret) = <<String(arg.respBytes)>>

\* ReadError(418, "not json")
C10_Witness ==
    /\ op = "ReadError"
    /\ arg.statusCode = 418
    /\ arg.respBytes = Garbage("not json")
    /\ Inner(ret).t = "rawtrace"
    /\ Messages(ret) = <<String(Garbage("not json"))>>

====
